---- MODULE Spec2Model ----
(***************************************************************************)
(* Model of src/tracker_v3.py: the category-scoped finance ledger          *)
(* (Categories, Transactions, Budgets, Goals kept in an SQLite store,      *)
(* driven by a terminal menu).                                             *)
(*                                                                         *)
(* Representation.                                                         *)
(*  - A table is the sequence of its rows in rowid order; a primary key    *)
(*    declared INTEGER PRIMARY KEY is SQLite's rowid, so an insert without *)
(*    a key gets max(rowid)+1, or 1 on an empty table.                     *)
(*  - Categories is the function category_id -> category_type, which is    *)
(*    what get_category_map() builds.                                      *)
(*  - A string is the sequence of its code points, so that SQL LOWER(),    *)
(*    which folds the ASCII letters only, is computed and not assumed.     *)
(*  - Amounts are integers (whole currency units); dates are day numbers.  *)
(*  - One action is one user action: from a prompt at which every menu     *)
(*    entry can be reached (the home menu or the "another? (Y/N)" prompt)  *)
(*    to the next such prompt, or to the death of the process by an        *)
(*    uncaught exception.  Entries a validation loop rejects leave the     *)
(*    store unchanged and are guards of the action.                        *)
(*  - The store executes every statement, except in the handler runs of   *)
(*    SpecStore, in which one statement raises sqlite3.Error.              *)
(*  - In SpecPrompts the menu choice and the answer to the first prompt   *)
(*    of the handler are two steps, so that a prompt no entry can leave    *)
(*    is a state.                                                          *)
(***************************************************************************)
EXTENDS Integers, Sequences, FiniteSets, TLC

VARIABLES
    cats,       \* Categories: [category ids -> category_type]
    txs,        \* Transactions: rows in rowid order
    budgets,    \* Budgets: rows in rowid order
    goals,      \* Goals: rows in rowid order
    pc,         \* "prompt": waiting at the home menu or at "another? (Y/N)";
                \* "dead": uncaught exception; "quit": exit() was called;
                \* or the handler whose first prompt is waiting (SubPrompts)
    out,        \* what the last user action showed: notice, error, reports
    everIds,    \* history: every category id that has existed so far
    hist,       \* history: amounts handed to Transaction.add, per (type, category)
    today,      \* the module global today: date.today() when the program was loaded
    now         \* the calendar date (what date.today() would return)

vars == <<cats, txs, budgets, goals, pc, out, everIds, hist, today, now>>

----------------------------------------------------------------------------
(* Bounds of the exploration *)

MaxTx == 2
MaxBudgets == 1
MaxGoals == 1
MaxDay == 1

(* SQL NULL / Python None in an integer column *)
NULL == -1

(* The "0. Add new category" entry of define_category *)
ADD_NEW == 0

Types == {"Expense", "Income"}

----------------------------------------------------------------------------
(* Strings as code points *)

Bills == <<66, 105, 108, 108, 115>>
Personal == <<80, 101, 114, 115, 111, 110, 97, 108>>
Travel == <<84, 114, 97, 118, 101, 108>>
Food == <<70, 111, 111, 100>>
food == <<102, 111, 111, 100>>
Utilities == <<85, 116, 105, 108, 105, 116, 105, 101, 115>>
EAcuteUpper == <<201>>
EAcuteLower == <<233>>
Blank == <<>>

(* What the user may type at the "new category" prompt *)
NameEntries == {Blank, food, EAcuteUpper, EAcuteLower}

(* SQLite's built-in LOWER(): the ASCII letters A-Z only *)
LOWER(s) == [i \in DOMAIN s |-> IF s[i] \in 65..90 THEN s[i] + 32 ELSE s[i]]

(* Case folding of the Latin-1 letters: A-Z and the accented capitals *)
CaseFold(s) ==
    [i \in DOMAIN s |->
        IF s[i] \in 65..90 \/ s[i] \in 192..214 \/ s[i] \in 216..222
        THEN s[i] + 32 ELSE s[i]]

----------------------------------------------------------------------------
(* SQL helpers *)

RECURSIVE SeqSum(_)
SeqSum(s) == IF s = <<>> THEN 0 ELSE Head(s) + SeqSum(Tail(s))

RECURSIVE SetMax(_)
SetMax(S) ==
    IF S = {} THEN 0
    ELSE LET x == CHOOSE y \in S : TRUE
             m == SetMax(S \ {x})
         IN IF x > m THEN x ELSE m

(* rowid given to an INSERT that names no key *)
NextRowId(ids) == SetMax(ids) + 1

(* SELECT sum(col): NULL over no rows *)
SqlSum(amounts) ==
    IF amounts = <<>> THEN [null |-> TRUE, val |-> 0]
    ELSE [null |-> FALSE, val |-> SeqSum(amounts)]

Amounts(rows) == [i \in DOMAIN rows |-> rows[i].amount]

----------------------------------------------------------------------------
(* class Transaction *)

(* Transaction.add: the row goes to user_choice when that is a listed
   category, else to the object's own category_id *)
Transaction_add(t, self, user_choice) ==
    LET category == IF user_choice > 0 THEN user_choice ELSE self.category_id
    IN Append(t, [id |-> NextRowId({t[i].id : i \in DOMAIN t}),
                  recipient |-> self.recipient,
                  amount |-> self.amount,
                  type |-> self.type,
                  date |-> self.transaction_date,
                  category_id |-> category])

(* Variant: the UPDATE without its WHERE clause *)
Transaction_set_new_amount_all_rows(t, new_amount, transaction_id) ==
    [i \in DOMAIN t |-> [t[i] EXCEPT !.amount = new_amount]]

(* UPDATE Transactions SET amount = ? WHERE id = ? *)
Transaction_set_new_amount(t, new_amount, transaction_id) ==
    [i \in DOMAIN t |->
        IF t[i].id = transaction_id
        THEN [t[i] EXCEPT !.amount = new_amount] ELSE t[i]]

(* Variant: the rows of the deleted category are deleted with it (a cascade) *)
Transaction_category_to_null_cascade(t, deleted_category_id) ==
    LET Kept(r) == r.category_id # deleted_category_id
    IN SelectSeq(t, Kept)

(* Variant: the UPDATE without its WHERE clause *)
Transaction_category_to_null_all_rows(t, deleted_category_id) ==
    [i \in DOMAIN t |-> [t[i] EXCEPT !.category_id = NULL]]

(* UPDATE Transactions SET category_id = NULL WHERE category_id = ? *)
Transaction_category_to_null(t, deleted_category_id) ==
    [i \in DOMAIN t |->
        IF t[i].category_id = deleted_category_id
        THEN [t[i] EXCEPT !.category_id = NULL] ELSE t[i]]

----------------------------------------------------------------------------
(* class Category *)

(* INSERT INTO Categories (category_type): the store assigns the id *)
Category_add(c, category_name) ==
    LET new_id == NextRowId(DOMAIN c)
    IN [i \in DOMAIN c \cup {new_id} |->
            IF i = new_id THEN category_name ELSE c[i]]

(* SELECT COUNT( * ) ... WHERE LOWER(category_type) = LOWER(?); count > 0 *)
Category_does_exist(c, category_type) ==
    Cardinality({i \in DOMAIN c : LOWER(c[i]) = LOWER(category_type)}) > 0

(* Variant: the DELETE takes the categories from that id on *)
Category_delete_from(c, category_id) ==
    [i \in {j \in DOMAIN c : j < category_id} |-> c[i]]

(* DELETE FROM Categories WHERE category_id = ? *)
Category_delete(c, category_id) ==
    [i \in DOMAIN c \ {category_id} |-> c[i]]

(* Variant: cursor.lastrowid read as the highest id before the insert *)
lastrowid_before_insert(c) == SetMax(DOMAIN c)

(* cursor.lastrowid after Category.add on table c *)
lastrowid(c) == NextRowId(DOMAIN c)

(* get_category_map: the dict category_id -> category_type *)
get_category_map(c) == c

----------------------------------------------------------------------------
(* class Budget, class Goal *)

Budget_add(b, self) ==
    Append(b, [budget_id |-> NextRowId({b[i].budget_id : i \in DOMAIN b}),
               category_id |-> self.category_id,
               amount |-> self.budget_amount,
               start |-> self.start_date,
               end |-> self.end_date])

Goal_add(g, self) ==
    Append(g, [goal_id |-> NextRowId({g[i].goal_id : i \in DOMAIN g}),
               category_id |-> self.category_id,
               target |-> self.goal_target,
               due_date |-> self.due_date])

----------------------------------------------------------------------------
(* Queries *)

(* Variant: the listing forgets the type *)
transaction_by_category_any_type(t, transaction_type, category_choice) ==
    LET Match(r) == r.category_id = category_choice
    IN SelectSeq(t, Match)

(* SELECT * FROM Transactions WHERE type = ? AND category_id = ? *)
transaction_by_category(t, transaction_type, category_choice) ==
    LET Match(r) == r.type = transaction_type /\ r.category_id = category_choice
    IN SelectSeq(t, Match)

(* SELECT * FROM Transactions WHERE type = ? *)
view_all_transactions(t, transaction_type) ==
    LET Match(r) == r.type = transaction_type
    IN SelectSeq(t, Match)

(* SELECT sum(amount) FROM Transactions WHERE type = ? AND category_id = ? *)
transaction_sum(t, transaction_type, category_id) ==
    SqlSum(Amounts(transaction_by_category(t, transaction_type, category_id)))

(* Variant: the most recent Budget of the category stands for all of them *)
budget_sum_most_recent(b, category_id) ==
    LET Match(r) == r.category_id = category_id
        own == SelectSeq(b, Match)
    IN IF own = <<>> THEN [null |-> TRUE, val |-> 0]
       ELSE [null |-> FALSE, val |-> own[Len(own)].amount]

(* SELECT sum(budget_amount) FROM Budgets WHERE category_id = ? *)
budget_sum(b, category_id) ==
    LET Match(r) == r.category_id = category_id
    IN SqlSum(Amounts(SelectSeq(b, Match)))

(* Python's "x or 0" on a fetched sum *)
OrZero(x) == IF x.null THEN 0 ELSE x.val

(* Python truth of a fetched sum: neither None nor 0 *)
Truthy(x) == ~x.null /\ x.val # 0

NoNotice == [notice |-> "none", err |-> "none"]

(* Variant: the notice is given from 90% on (>= for >) *)
budget_notice_from_90(transaction_type, category_id, t, b, c) ==
    LET Of(r) == r.type = transaction_type /\ r.category_id = category_id
        In(r) == r.category_id = category_id
        ts == SqlSum(Amounts(SelectSeq(t, Of)))
        bs == SqlSum(Amounts(SelectSeq(b, In)))
    IN IF ~Truthy(bs) THEN NoNotice
       ELSE IF ts.null THEN [notice |-> "none", err |-> "TypeError"]
       ELSE IF ~(10 * ts.val >= 9 * bs.val) THEN NoNotice
       ELSE IF category_id \notin DOMAIN c
            THEN [notice |-> "none", err |-> "KeyError"]
       ELSE IF transaction_type = "Expense"
            THEN [notice |-> "warning", err |-> "none"]
            ELSE [notice |-> "info", err |-> "none"]

(* budget_notice: transaction_sum > budget_sum * 0.9 is 10*ts > 9*bs.
   Comparing None with a float raises TypeError; category_map[category_id]
   raises KeyError for an id that is not a category. *)
budget_notice(transaction_type, category_id, t, b, c) ==
    LET ts == transaction_sum(t, transaction_type, category_id)
        bs == budget_sum(b, category_id)
        category_map == get_category_map(c)
    IN IF ~Truthy(bs) THEN NoNotice
       ELSE IF ts.null THEN [notice |-> "none", err |-> "TypeError"]
       ELSE IF ~(10 * ts.val > 9 * bs.val) THEN NoNotice
       ELSE IF category_id \notin DOMAIN category_map
            THEN [notice |-> "none", err |-> "KeyError"]
       ELSE IF transaction_type = "Expense"
            THEN [notice |-> "warning", err |-> "none"]
            ELSE [notice |-> "info", err |-> "none"]

(* Variant: the Budgets are used up by the notice they gave *)
budget_notice_leaves_spent(transaction_type, category_id, t, b, g, c) ==
    LET Other(r) == r.category_id # category_id
    IN [txs |-> t, budgets |-> SelectSeq(b, Other), goals |-> g, cats |-> c]

(* The tables after budget_notice has run on them: its statements are the
   two SELECT sum() and the SELECT of get_category_map; it executes no
   INSERT, UPDATE or DELETE and never commits. *)
budget_notice_leaves(transaction_type, category_id, t, b, g, c) ==
    [txs |-> t, budgets |-> b, goals |-> g, cats |-> c]

----------------------------------------------------------------------------
(* Goal.progress *)

Abs(x) == IF x < 0 THEN -x ELSE x

(* f"{x:.0f}" of x = num / den, den > 0: nearest integer, ties to even *)
RoundHalfEven(num, den) ==
    LET f == num \div den
        r == num % den
    IN IF 2 * r < den THEN f
       ELSE IF 2 * r > den THEN f + 1
       ELSE IF f % 2 = 0 THEN f ELSE f + 1

Report(kind, percent, deficit, days_left, err) ==
    [kind |-> kind, percent |-> percent, deficit |-> deficit,
     days_left |-> days_left, err |-> err]

(* Variant: the difference without abs() *)
goal_deficit_signed(progress_total, goal_target) == progress_total - goal_target

(* goal_deficit = abs(progress_total - self.goal_target) *)
goal_deficit(progress_total, goal_target) == Abs(progress_total - goal_target)

(* Variant: a due date that has passed is reported as no days left *)
days_left_clamped(due_date, start) ==
    IF due_date - start < 0 THEN 0 ELSE due_date - start

(* (due_date - today).days: the difference of two dates in whole days *)
days_left(due_date, start) == due_date - start

(* Goal.progress(progress_choice) on the goal row self *)
Goal_progress(self, progress_choice, t) ==
    LET category_income == OrZero(transaction_sum(t, "Income", progress_choice))
        category_expense == OrZero(transaction_sum(t, "Expense", progress_choice))
        progress_total == category_income - category_expense
    IN IF category_income = 0 /\ category_expense = 0
       THEN Report("no_transactions", 0, 0, 0, "none")
       ELSE IF progress_total >= 0
       THEN IF self.target = 0
            THEN Report("error", 0, 0, 0, "ZeroDivisionError")
            ELSE IF 100 * progress_total < 100 * self.target
            THEN Report("percent",
                        RoundHalfEven(100 * progress_total, self.target),
                        0, days_left(self.due_date, today), "none")
            ELSE Report("achieved", 0, 0, 0, "none")
       ELSE Report("deficit", 0,
                   goal_deficit(progress_total, self.target),
                   days_left(self.due_date, today), "none")

----------------------------------------------------------------------------
(* Start-up *)

categories_to_add == <<Bills, Personal, Travel, Food>>

(* Variant: the default categories that are missing are inserted *)
add_default_category_missing(c) ==
    [i \in DOMAIN c \cup DOMAIN categories_to_add |->
        IF i \in DOMAIN c THEN c[i] ELSE categories_to_add[i]]

(* add_default_category: the four rows are inserted, with their fixed ids,
   when SELECT COUNT( * ) FROM Categories is 0 *)
add_default_category(c) ==
    LET count == Cardinality(DOMAIN c)
    IN IF count = 0
       THEN [i \in DOMAIN categories_to_add |-> categories_to_add[i]]
       ELSE c

----------------------------------------------------------------------------
(* What the user types *)

(* an amount entry: float() parses it (num) or raises ValueError *)
Num(v) == [num |-> TRUE, val |-> v]
NotANumber == [num |-> FALSE, val |-> 0]
AmountEntries == {NotANumber, Num(-1), Num(0), Num(2)}
RecipientEntries == {"", "PowerCo"}
DateEntries == {0, 1}

(* nothing shown: no notice, no exception, no report, no listing; fault is
   the statement at which the store raised sqlite3.Error, if one did;
   refused is the message for an entry the handler refused before the one
   it accepted *)
NoOut == [notice |-> "none", err |-> "none", reports |-> <<>>,
          view |-> "none", all |-> FALSE, cat |-> NULL, rows |-> <<>>,
          fault |-> <<"none", "none">>, refused |-> "none"]

----------------------------------------------------------------------------
(* define_category -> add_category -> add_transaction *)

(* add_category: the registry and the category id handed to add_transaction.
   Enabled(...) is the entry the prompts accept. *)
add_category_accepts(c, new_category, category_name) ==
    IF new_category = ADD_NEW
    THEN category_name # Blank /\ ~Category_does_exist(c, category_name)
    ELSE category_name = Blank

(* Variant: the id handed on is new_key, max(category_map.keys()) + 1 of the
   map read after the insert *)
add_category_new_key(c, new_category, category_name) ==
    IF new_category = ADD_NEW
    THEN [cats |-> Category_add(c, category_name),
          new_category_id |-> SetMax(DOMAIN Category_add(c, category_name)) + 1]
    ELSE [cats |-> c, new_category_id |-> new_category]

add_category(c, new_category, category_name) ==
    IF new_category = ADD_NEW
    THEN [cats |-> Category_add(c, category_name),
          new_category_id |-> lastrowid(c)]
    ELSE [cats |-> c, new_category_id |-> new_category]

(* the amount loop of add_transaction *)
add_transaction_accepts(new_recipient, amount_entry) ==
    /\ new_recipient # ""
    /\ amount_entry.num
    /\ ~(amount_entry.val < 0)

AddTransaction(transaction_type, new_category, category_name, new_recipient, amount_entry) ==
    /\ pc = "prompt"
    /\ Len(txs) < MaxTx
    /\ new_category \in DOMAIN get_category_map(cats) \cup {ADD_NEW}
    /\ add_category_accepts(cats, new_category, category_name)
    /\ add_transaction_accepts(new_recipient, amount_entry)
    /\ LET added == add_category(cats, new_category, category_name)
           new_category_id == added.new_category_id
           new_transaction ==
               [recipient |-> new_recipient, amount |-> amount_entry.val,
                type |-> transaction_type, transaction_date |-> today,
                category_id |-> new_category_id]
           t1 == Transaction_add(txs, new_transaction, new_category_id)
           n == budget_notice(transaction_type, new_category_id, t1,
                              budgets, added.cats)
           after == budget_notice_leaves(transaction_type, new_category_id,
                                         t1, budgets, goals, added.cats)
       IN /\ cats' = after.cats
          /\ txs' = after.txs
          /\ budgets' = after.budgets
          /\ goals' = after.goals
          /\ out' = [NoOut EXCEPT !.notice = n.notice, !.err = n.err]
          /\ pc' = IF n.err = "none" THEN "prompt" ELSE "dead"
          /\ everIds' = everIds \cup DOMAIN added.cats
    /\ UNCHANGED <<today, now>>

----------------------------------------------------------------------------
(* update_amount -> execute_update *)

Unbound == [bound |-> FALSE, val |-> 0]
Bound(v) == [bound |-> TRUE, val |-> v]

(* The while loop of execute_update over the lines the user types.
   updated_amount is assigned before the "blank" test, so an entry of 0
   leaves it bound to 0 and prompts again; a ValueError prints a message
   and falls through to the break. *)
RECURSIVE execute_update_loop(_, _)
execute_update_loop(entries, updated_amount) ==
    IF entries = <<>>
    THEN [done |-> FALSE, updated_amount |-> updated_amount, rest |-> <<>>]
    ELSE LET e == Head(entries)
         IN IF ~e.num
            THEN [done |-> TRUE, updated_amount |-> updated_amount,
                  rest |-> Tail(entries)]
            ELSE IF e.val = 0
            THEN execute_update_loop(Tail(entries), Bound(0))
            ELSE [done |-> TRUE, updated_amount |-> Bound(e.val),
                  rest |-> Tail(entries)]

UpdateEntries == [1..1 -> AmountEntries] \cup [1..2 -> AmountEntries]

(* SELECT id FROM Transactions where type = ? *)
id_list(t, transaction_type) ==
    {t[i].id : i \in {j \in DOMAIN t : t[j].type = transaction_type}}

(* update_amount from its id prompt, the program being at the prompt at *)
UpdateAmountAt(at, transaction_type, id_to_update, entries) ==
    /\ pc = at
    /\ id_to_update > 0
    /\ id_to_update \in id_list(txs, transaction_type)
    /\ LET loop == execute_update_loop(entries, Unbound)
           updated_amount == loop.updated_amount
           t1 == Transaction_set_new_amount(txs, updated_amount.val,
                                            id_to_update)
           n == budget_notice(transaction_type, id_to_update, t1,
                              budgets, cats)
           after == budget_notice_leaves(transaction_type, id_to_update,
                                         t1, budgets, goals, cats)
       IN /\ loop.done
          /\ loop.rest = <<>>
          /\ IF ~updated_amount.bound
             THEN /\ out' = [NoOut EXCEPT !.err = "UnboundLocalError"]
                  /\ pc' = "dead"
                  /\ UNCHANGED <<cats, txs, budgets, goals>>
             ELSE /\ cats' = after.cats
                  /\ txs' = after.txs
                  /\ budgets' = after.budgets
                  /\ goals' = after.goals
                  /\ out' = [NoOut EXCEPT !.notice = n.notice, !.err = n.err]
                  /\ pc' = IF n.err = "none" THEN "prompt" ELSE "dead"
    /\ UNCHANGED <<everIds, hist, today, now>>

UpdateAmount(transaction_type, id_to_update, entries) ==
    UpdateAmountAt("prompt", transaction_type, id_to_update, entries)

----------------------------------------------------------------------------
(* delete_category -> null_deleted_category *)

(* Variant: the selected rows are deleted instead of updated *)
null_each_purge(t, results, delete_choice) ==
    LET Kept(r) == r.category_id # delete_choice
    IN SelectSeq(t, Kept)

(* one Transaction.category_to_null(delete_choice) per selected row *)
RECURSIVE null_each(_, _, _)
null_each(t, results, delete_choice) ==
    IF results = <<>> THEN t
    ELSE null_each(Transaction_category_to_null(t, delete_choice),
                   Tail(results), delete_choice)

(* Variant: the registry row is deleted and the Transactions are left alone *)
null_deleted_category_skipped(t, delete_choice) == t

null_deleted_category(t, delete_choice) ==
    LET Match(r) == r.category_id = delete_choice
        transactions == SelectSeq(t, Match)
    IN null_each(t, transactions, delete_choice)

(* One pass of the loop of delete_category on the entry delete_choice: an
   id that is not in the category map is refused ("Invalid entry"), a
   category whose name does_exist does not find is refused ("does not
   exist"), any other is deleted. *)
delete_category_entry(c, delete_choice) ==
    LET category_map == get_category_map(c)
    IN IF delete_choice \notin DOMAIN category_map
       THEN [cats |-> c, refused |-> "Invalid entry"]
       ELSE IF ~Category_does_exist(c, category_map[delete_choice])
       THEN [cats |-> c, refused |-> "does not exist"]
       ELSE [cats |-> Category_delete(c, delete_choice), refused |-> "none"]

(* delete_category from its prompt, the program being at the prompt at *)
DeleteCategoryAt(at, delete_choice) ==
    /\ pc = at
    /\ delete_category_entry(cats, delete_choice).refused = "none"
    /\ cats' = delete_category_entry(cats, delete_choice).cats
    /\ txs' = null_deleted_category(txs, delete_choice)
    /\ out' = NoOut
    /\ pc' = "prompt"
    /\ UNCHANGED <<budgets, goals, everIds, hist, today, now>>

DeleteCategory(delete_choice) == DeleteCategoryAt("prompt", delete_choice)

(* delete_category when the first entry is refused and the second is not *)
DeleteCategoryRetry(refused_choice, delete_choice) ==
    /\ pc = "prompt"
    /\ delete_category_entry(cats, refused_choice).refused # "none"
    /\ cats = delete_category_entry(cats, refused_choice).cats
    /\ delete_category_entry(cats, delete_choice).refused = "none"
    /\ cats' = delete_category_entry(cats, delete_choice).cats
    /\ txs' = null_deleted_category(txs, delete_choice)
    /\ out' = [NoOut EXCEPT !.refused =
                   delete_category_entry(cats, refused_choice).refused]
    /\ pc' = "prompt"
    /\ UNCHANGED <<budgets, goals, everIds, hist, today, now>>

----------------------------------------------------------------------------
(* set_category -> set_amount -> set_budget_time / set_goal_due_date *)

(* Variant: any number is taken, negative ones too *)
set_amount_accepts_any_number(amount_entry) == amount_entry.num

(* the loop of set_amount: float() must parse the entry, to a number that
   is not below 0 *)
set_amount_accepts(amount_entry) ==
    amount_entry.num /\ ~(amount_entry.val < 0)

(* set_category("Budget") to the next prompt, in a session that sets no
   more than limit Budgets *)
SetBudgetWithin(limit, class_category, amount_entry, start_date, end_date) ==
    /\ pc = "prompt"
    /\ Len(budgets) < limit
    /\ class_category \in DOMAIN get_category_map(cats)
    /\ set_amount_accepts(amount_entry)
    /\ ~(end_date < start_date)
    /\ budgets' = Budget_add(budgets,
                      [category_id |-> class_category,
                       budget_amount |-> amount_entry.val,
                       start_date |-> start_date, end_date |-> end_date])
    /\ out' = NoOut
    /\ pc' = "prompt"
    /\ UNCHANGED <<cats, txs, goals, everIds, hist, today, now>>

SetBudget(class_category, amount_entry, start_date, end_date) ==
    SetBudgetWithin(MaxBudgets, class_category, amount_entry, start_date, end_date)

(* set_category("Goal") from its prompt, the program being at the prompt at *)
SetGoalAt(at, class_category, amount_entry, due_date) ==
    /\ pc = at
    /\ Len(goals) < MaxGoals
    /\ class_category \in DOMAIN get_category_map(cats)
    /\ set_amount_accepts(amount_entry)
    /\ ~(due_date < today)
    /\ goals' = Goal_add(goals,
                    [category_id |-> class_category,
                     goal_target |-> amount_entry.val,
                     due_date |-> due_date])
    /\ out' = NoOut
    /\ pc' = "prompt"
    /\ UNCHANGED <<cats, txs, budgets, everIds, hist, today, now>>

SetGoal(class_category, amount_entry, due_date) ==
    SetGoalAt("prompt", class_category, amount_entry, due_date)

----------------------------------------------------------------------------
(* Views *)

(* print_results(results, "Goals", category_id): one progress message per
   goal; an exception in one ends the listing *)
RECURSIVE print_goal_results(_, _, _)
print_goal_results(results, category_id, t) ==
    IF results = <<>> THEN <<>>
    ELSE LET r == Goal_progress(Head(results), category_id, t)
         IN IF r.err # "none" THEN <<r>>
            ELSE <<r>> \o print_goal_results(Tail(results), category_id, t)

(* SELECT * FROM Goals WHERE category_id = ? *)
goals_by_category(g, progress_choice) ==
    LET Match(r) == r.category_id = progress_choice
    IN SelectSeq(g, Match)

(* view_progress -> display_progress *)
ViewProgress(progress_choice) ==
    /\ pc = "prompt"
    /\ progress_choice \in DOMAIN get_category_map(cats)
    /\ LET reports == print_goal_results(
                          goals_by_category(goals, progress_choice),
                          progress_choice, txs)
           failed == \E i \in DOMAIN reports : reports[i].err # "none"
       IN /\ out' = [NoOut EXCEPT !.reports = reports,
                                  !.err = IF failed
                                          THEN reports[Len(reports)].err
                                          ELSE "none"]
          /\ pc' = IF failed THEN "dead" ELSE "prompt"
    /\ UNCHANGED <<cats, txs, budgets, goals, everIds, hist, today, now>>

(* transaction_by_category as a user action: the rows listed *)
ViewByCategory(transaction_type, category_choice) ==
    /\ pc = "prompt"
    /\ category_choice \in DOMAIN get_category_map(cats)
    /\ out' = [NoOut EXCEPT !.view = transaction_type,
                            !.cat = category_choice,
                            !.rows = transaction_by_category(
                                         txs, transaction_type, category_choice)]
    /\ pc' = "prompt"
    /\ UNCHANGED <<cats, txs, budgets, goals, everIds, hist, today, now>>

(* view_transaction_menu, option 1 -> view_all_transactions: every row of
   the type, whatever its category *)
ViewAll(transaction_type) ==
    /\ pc = "prompt"
    /\ out' = [NoOut EXCEPT !.view = transaction_type,
                            !.all = TRUE,
                            !.rows = view_all_transactions(txs, transaction_type)]
    /\ pc' = "prompt"
    /\ UNCHANGED <<cats, txs, budgets, goals, everIds, hist, today, now>>

(* The process ends (menu entry 11, or an uncaught exception) and the
   program is run again on the same database file: the module is loaded
   again (today = date.today()), create_tables keeps the tables,
   add_default_category seeds an empty registry. *)
Restart ==
    /\ pc \in {"prompt", "dead"}
    /\ cats' = add_default_category(cats)
    /\ everIds' = everIds \cup DOMAIN cats'
    /\ out' = NoOut
    /\ pc' = "prompt"
    /\ today' = now
    /\ UNCHANGED <<txs, budgets, goals, hist, now>>

(* Midnight passes: the calendar date moves on, the module global today
   keeps the value it was given when the program was loaded *)
Tick ==
    /\ now < MaxDay
    /\ now' = now + 1
    /\ UNCHANGED <<cats, txs, budgets, goals, pc, out, everIds, hist, today>>

----------------------------------------------------------------------------
(* The program *)

(* A category is created only on the way to inserting a Transaction, and
   gets max(category_id)+1: no id exceeds the four seeded ones by more than
   the number of Transactions. *)
MaxCatId == Len(categories_to_add) + MaxTx
CatIds == 1..MaxCatId

(* The categories a session works with when it leaves Bills, Personal and
   Travel alone: Food and the ones created at run time *)
UserCats == Len(categories_to_add)..MaxCatId

NoHist == [k \in Types \X CatIds |-> 0]

Init ==
    /\ cats = add_default_category(<<>>)
    /\ txs = <<>>
    /\ budgets = <<>>
    /\ goals = <<>>
    /\ pc = "prompt"
    /\ out = NoOut
    /\ everIds = DOMAIN add_default_category(<<>>)
    /\ hist = NoHist
    /\ now = 0
    /\ today = now

AddTransactionStep(TypeSet, Picks, Names, Entries) ==
    \E transaction_type \in TypeSet, new_category \in Picks \cup {ADD_NEW},
       category_name \in Names, new_recipient \in RecipientEntries,
       amount_entry \in Entries :
        /\ AddTransaction(transaction_type, new_category, category_name,
                          new_recipient, amount_entry)
        /\ UNCHANGED hist

UpdateAmountStep ==
    \E transaction_type \in Types, id_to_update \in 0..MaxTx,
       entries \in UpdateEntries :
        UpdateAmount(transaction_type, id_to_update, entries)

DeleteCategoryStep(Picks) ==
    \E delete_choice \in Picks : DeleteCategory(delete_choice)

DeleteCategoryRetryStep(Picks) ==
    \E refused_choice \in 0..(MaxCatId + 1), delete_choice \in Picks :
        DeleteCategoryRetry(refused_choice, delete_choice)

SetBudgetStep(Picks, Entries, Dates) ==
    \E class_category \in Picks, amount_entry \in Entries,
       start_date \in Dates, end_date \in Dates :
        SetBudget(class_category, amount_entry, start_date, end_date)

SetGoalStep(Picks, Entries, Dates) ==
    \E class_category \in Picks, amount_entry \in Entries,
       due_date \in Dates :
        SetGoal(class_category, amount_entry, due_date)

ViewProgressStep(Picks) ==
    \E progress_choice \in Picks : ViewProgress(progress_choice)

ViewByCategoryStep(Picks) ==
    \E transaction_type \in Types, category_choice \in Picks :
        ViewByCategory(transaction_type, category_choice)

ViewAllStep ==
    \E transaction_type \in Types : ViewAll(transaction_type)

----------------------------------------------------------------------------
(* Spec: a session that adds, updates and deletes in Food and in the
   categories it creates *)

Next ==
    \/ AddTransactionStep(Types, UserCats, {Blank, food, EAcuteUpper},
                          {NotANumber, Num(-1), Num(2)})
    \/ UpdateAmountStep
    \/ DeleteCategoryStep(UserCats)
    \/ Restart

Spec == Init /\ [][Next]_vars

----------------------------------------------------------------------------
(* SpecRegistry: the life of the registry, over every category and every
   name entry; the Transactions that come with a creation are all alike *)

NextRegistry ==
    \/ AddTransactionStep({"Expense"}, CatIds, NameEntries, {Num(2)})
    \/ DeleteCategoryStep(CatIds)
    \/ Restart

SpecRegistry == Init /\ [][NextRegistry]_vars

----------------------------------------------------------------------------
(* SpecPlans: Budgets and Goals set in categories that are later deleted
   and created again *)

NextPlans ==
    \/ AddTransactionStep({"Expense"}, UserCats, {Blank, EAcuteUpper},
                          {Num(2)})
    \/ DeleteCategoryStep(UserCats)
    \/ DeleteCategoryRetryStep(UserCats)
    \/ SetBudgetStep(UserCats, {NotANumber, Num(-1), Num(2)}, DateEntries)
    \/ SetGoalStep(UserCats, {NotANumber, Num(-1), Num(2)}, DateEntries)
    \/ Restart

SpecPlans == Init /\ [][NextPlans]_vars

----------------------------------------------------------------------------
(* SpecNotice: amounts around the 90% line of the Budgets of Food, which
   may be deleted while its Budgets stay; a Budget in Bills as well, whose
   id is also a Transaction id *)

NextNotice ==
    \/ AddTransactionStep(Types, {4}, {Blank}, {Num(9), Num(10)})
    \/ UpdateAmountStep
    \/ DeleteCategoryStep({4})
    \/ SetBudgetStep({1, 4}, {Num(0), Num(10)}, {0})
    \/ Restart

SpecNotice == Init /\ [][NextNotice]_vars

----------------------------------------------------------------------------
(* SpecProgress: incomes and expenses of one category against its Goals *)

NextProgress ==
    \/ AddTransactionStep(Types, {4}, {Blank}, {Num(1), Num(3)})
    \/ SetGoalStep({4}, {Num(-1), Num(0), Num(4)}, DateEntries)
    \/ ViewProgressStep({4})
    \/ Restart

SpecProgress == Init /\ [][NextProgress]_vars

----------------------------------------------------------------------------
(* SpecInserts: Transaction inserts and listings only; hist adds up the
   amounts that were entered for each (type, category) *)

AddTransactionRecorded(transaction_type, new_category, category_name, new_recipient, amount_entry) ==
    /\ AddTransaction(transaction_type, new_category, category_name,
                      new_recipient, amount_entry)
    /\ LET entered_for ==
               IF new_category = ADD_NEW THEN lastrowid(cats) ELSE new_category
       IN hist' = [hist EXCEPT ![<<transaction_type, entered_for>>] =
                                   @ + amount_entry.val]

AddTransactionRecordedStep(TypeSet, Picks, Names, Entries) ==
    \E transaction_type \in TypeSet, new_category \in Picks \cup {ADD_NEW},
       category_name \in Names, new_recipient \in RecipientEntries,
       amount_entry \in Entries :
        AddTransactionRecorded(transaction_type, new_category, category_name,
                               new_recipient, amount_entry)

NextInserts ==
    \/ AddTransactionRecordedStep(Types, UserCats, {Blank, EAcuteUpper},
                                  {Num(-1), Num(1), Num(2)})
    \/ ViewByCategoryStep(UserCats)

SpecInserts == Init /\ [][NextInserts]_vars

----------------------------------------------------------------------------
(* SpecScenario: categories named Utilities are created with an Expense of
   120, listed, and deleted *)

NextScenario ==
    \/ AddTransactionStep(Types, UserCats, {Blank, Utilities}, {Num(120)})
    \/ DeleteCategoryStep(UserCats)
    \/ ViewByCategoryStep(UserCats)
    \/ ViewAllStep

SpecScenario == Init /\ [][NextScenario]_vars

----------------------------------------------------------------------------
(* SpecRows: every handler that writes, on Food and on the categories the
   session creates *)

NextRows ==
    \/ AddTransactionStep({"Expense"}, UserCats, {Blank, EAcuteUpper}, {Num(2)})
    \/ UpdateAmountStep
    \/ DeleteCategoryStep(UserCats)
    \/ SetBudgetStep({4}, {Num(2)}, {0})
    \/ SetGoalStep({4}, {Num(2)}, {0})
    \/ Restart

SpecRows == Init /\ [][NextRows]_vars

----------------------------------------------------------------------------
(* SpecClock: a session that is left running over midnight, in which Goals
   are set for Food and their progress is viewed *)

NextClock ==
    \/ Tick
    \/ AddTransactionStep(Types, {4}, {Blank}, {Num(1)})
    \/ SetGoalStep({4}, {Num(2), Num(4)}, 0..MaxDay)
    \/ ViewProgressStep({4})
    \/ Restart

SpecClock == Init /\ [][NextClock]_vars

----------------------------------------------------------------------------
(* SpecBudgets: several Budgets of Food, over periods that overlap and that
   do not contain the day of the Expenses *)

MaxOverlap == MaxBudgets + 1

SetBudgetWithinStep(limit, Picks, Entries, Dates) ==
    \E class_category \in Picks, amount_entry \in Entries,
       start_date \in Dates, end_date \in Dates :
        SetBudgetWithin(limit, class_category, amount_entry, start_date,
                        end_date)

NextBudgets ==
    \/ AddTransactionStep({"Expense"}, {4}, {Blank}, {Num(9), Num(10)})
    \/ SetBudgetWithinStep(MaxOverlap, {4}, {Num(10)}, {1, 2})
    \/ Restart

SpecBudgets == Init /\ [][NextBudgets]_vars

----------------------------------------------------------------------------
(* SpecPrompts: the menu choice and the answer to the handler's first
   prompt are two steps.  A handler asked for waits in the loop of its
   first prompt, which goes round on every entry it refuses; the entries
   it accepts take it to the next "another? (Y/N)" prompt, or to its death.
   The amount and date prompts that follow accept some entry in every
   state and are part of the answering step. *)

update_amount_prompt(transaction_type) ==
    IF transaction_type = "Expense"
    THEN "update_amount(Expense)" ELSE "update_amount(Income)"

SubPrompts ==
    {update_amount_prompt("Expense"), update_amount_prompt("Income"),
     "delete_category", "set_category(Goal)"}

(* the menu entry, or Y at "another?", that calls the handler; no Goal is
   asked for beyond MaxGoals *)
Ask(handler) ==
    /\ pc = "prompt"
    /\ handler \in SubPrompts
    /\ handler = "set_category(Goal)" => Len(goals) < MaxGoals
    /\ pc' = handler
    /\ out' = NoOut
    /\ UNCHANGED <<cats, txs, budgets, goals, everIds, hist, today, now>>

(* menu entry 11 (after N at "another?"): exit() *)
Quit ==
    /\ pc = "prompt"
    /\ pc' = "quit"
    /\ UNCHANGED <<cats, txs, budgets, goals, out, everIds, hist, today, now>>

AskStep == \E handler \in SubPrompts : Ask(handler)

UpdateAmountAnswerStep ==
    \E transaction_type \in Types, id_to_update \in 0..MaxTx,
       entries \in [1..1 -> AmountEntries] :
        UpdateAmountAt(update_amount_prompt(transaction_type),
                       transaction_type, id_to_update, entries)

DeleteCategoryAnswerStep(Picks) ==
    \E delete_choice \in Picks : DeleteCategoryAt("delete_category", delete_choice)

SetGoalAnswerStep(Picks, Entries, Dates) ==
    \E class_category \in Picks, amount_entry \in Entries,
       due_date \in Dates :
        SetGoalAt("set_category(Goal)", class_category, amount_entry, due_date)

NextPrompts ==
    \/ AddTransactionStep({"Expense"}, {4}, {Blank}, {Num(2)})
    \/ AskStep
    \/ UpdateAmountAnswerStep
    \/ DeleteCategoryAnswerStep(1..Len(categories_to_add))
    \/ SetGoalAnswerStep(1..Len(categories_to_add), {Num(2)}, {0})
    \/ Quit

SpecPrompts == Init /\ [][NextPrompts]_vars

----------------------------------------------------------------------------
(* The store raises sqlite3.Error

   A handler run in which one statement of the store fails: fault names the
   statement.  The class methods that write run cursor.execute and
   db.commit inside try, and on sqlite3.Error call db.rollback() and raise;
   get_category_map and budget_notice print the error and go on;
   Goal.progress returns the error text as its message. *)

(* Variant: the except clause without db.rollback(): what was executed
   stays in the open transaction and is committed with the next write *)
write_statement_no_rollback(before, executed, fault_at) ==
    IF fault_at = "none" THEN [table |-> executed, err |-> "none"]
    ELSE IF fault_at = "execute"
    THEN [table |-> before, err |-> "sqlite3.Error"]
    ELSE [table |-> executed, err |-> "sqlite3.Error"]

(* try: cursor.execute(...); db.commit()
   except sqlite3.Error: db.rollback(); raise
   executed is the table the statement produces from before *)
write_statement(before, executed, fault_at) ==
    IF fault_at = "none" THEN [table |-> executed, err |-> "none"]
    ELSE [table |-> before, err |-> "sqlite3.Error"]

(* no statement failed *)
NoFault == <<"none", "none">>

(* the part of a fault's name after the method: execute or commit *)
FaultAt(fault, method) ==
    IF fault = <<method, "execute">> THEN "execute"
    ELSE IF fault = <<method, "commit">> THEN "commit"
    ELSE "none"

WriteFaults(method) == {<<method, "execute">>, <<method, "commit">>}

(* get_category_map when its SELECT may fail: the error is printed and the
   dict built so far, which is empty, is returned *)
get_category_map_st(c, failed) == IF failed THEN <<>> ELSE get_category_map(c)

(* budget_notice when one of its statements fails: a failed SELECT sum()
   is printed and leaves its variable unbound, which raises
   UnboundLocalError where the variable is read *)
budget_notice_st(transaction_type, category_id, t, b, c, fault) ==
    LET ts == transaction_sum(t, transaction_type, category_id)
        bs == budget_sum(b, category_id)
        category_map ==
            get_category_map_st(c, fault = <<"budget_notice", "get_category_map">>)
    IN IF fault = <<"budget_notice", "budget_sum">>
       THEN [notice |-> "none", err |-> "UnboundLocalError"]
       ELSE IF ~Truthy(bs) THEN NoNotice
       ELSE IF fault = <<"budget_notice", "transaction_sum">>
       THEN [notice |-> "none", err |-> "UnboundLocalError"]
       ELSE IF ts.null THEN [notice |-> "none", err |-> "TypeError"]
       ELSE IF ~(10 * ts.val > 9 * bs.val) THEN NoNotice
       ELSE IF category_id \notin DOMAIN category_map
            THEN [notice |-> "none", err |-> "KeyError"]
       ELSE IF transaction_type = "Expense"
            THEN [notice |-> "warning", err |-> "none"]
            ELSE [notice |-> "info", err |-> "none"]

BudgetNoticeFaults ==
    {<<"budget_notice", "transaction_sum">>, <<"budget_notice", "budget_sum">>,
     <<"budget_notice", "get_category_map">>}

(* define_category -> add_category -> add_transaction with a failing
   statement.  With an empty category_map define_category accepts the
   entry 0 only; max() of the empty map at line 502 raises ValueError. *)
AddTransactionFaults ==
    {<<"define_category", "get_category_map">>,
     <<"Category.does_exist", "execute">>,
     <<"add_category", "get_category_map">>,
     <<"add_transaction", "get_category_map">>}
        \cup WriteFaults("Category.add") \cup WriteFaults("Transaction.add")
        \cup BudgetNoticeFaults

CreationFaults ==
    {<<"Category.does_exist", "execute">>, <<"add_category", "get_category_map">>}
        \cup WriteFaults("Category.add")

AddTransactionFaulty(transaction_type, new_category, category_name, new_recipient, amount_entry, fault) ==
    /\ pc = "prompt"
    /\ Len(txs) < MaxTx
    /\ fault \in AddTransactionFaults
    /\ new_category \in
           DOMAIN get_category_map_st(
                      cats, fault = <<"define_category", "get_category_map">>)
               \cup {ADD_NEW}
    /\ fault \in CreationFaults => new_category = ADD_NEW
    /\ add_category_accepts(cats, new_category, category_name)
    /\ add_transaction_accepts(new_recipient, amount_entry)
    /\ LET created == write_statement(cats, Category_add(cats, category_name),
                                      FaultAt(fault, "Category.add"))
           new_category_id ==
               IF new_category = ADD_NEW THEN lastrowid(cats) ELSE new_category
           c1 == IF new_category = ADD_NEW THEN created.table ELSE cats
           new_transaction ==
               [recipient |-> new_recipient, amount |-> amount_entry.val,
                type |-> transaction_type, transaction_date |-> today,
                category_id |-> new_category_id]
           inserted ==
               write_statement(txs,
                               Transaction_add(txs, new_transaction,
                                               new_category_id),
                               FaultAt(fault, "Transaction.add"))
           n == budget_notice_st(transaction_type, new_category_id,
                                 inserted.table, budgets, c1, fault)
           err == IF fault = <<"Category.does_exist", "execute">>
                  THEN "sqlite3.Error"
                  ELSE IF fault \in WriteFaults("Category.add")
                  THEN created.err
                  ELSE IF fault = <<"add_category", "get_category_map">>
                  THEN "ValueError"
                  ELSE IF fault \in WriteFaults("Transaction.add")
                  THEN inserted.err
                  ELSE n.err
           stopped_at_category == fault \in CreationFaults
       IN /\ cats' = IF fault = <<"Category.does_exist", "execute">>
                     THEN cats ELSE c1
          /\ txs' = IF stopped_at_category THEN txs ELSE inserted.table
          /\ out' = [NoOut EXCEPT
                        !.notice = IF err = "none" THEN n.notice ELSE "none",
                        !.err = err, !.fault = fault]
          /\ pc' = IF err = "none" THEN "prompt" ELSE "dead"
          /\ everIds' = everIds \cup DOMAIN cats'
    /\ UNCHANGED <<budgets, goals, hist, today, now>>

(* update_amount -> execute_update with a failing statement *)
UpdateAmountFaults ==
    {<<"update_amount", "select">>}
        \cup WriteFaults("Transaction.set_new_amount") \cup BudgetNoticeFaults

UpdateAmountFaulty(transaction_type, id_to_update, entries, fault) ==
    /\ pc = "prompt"
    /\ fault \in UpdateAmountFaults
    /\ id_to_update > 0
    /\ LET selecting == fault = <<"update_amount", "select">>
           loop == execute_update_loop(entries, Unbound)
           updated_amount == loop.updated_amount
           updated ==
               write_statement(txs,
                               Transaction_set_new_amount(
                                   txs, updated_amount.val, id_to_update),
                               FaultAt(fault, "Transaction.set_new_amount"))
           n == budget_notice_st(transaction_type, id_to_update,
                                 updated.table, budgets, cats, fault)
           err == IF selecting THEN "sqlite3.Error"
                  ELSE IF fault \in WriteFaults("Transaction.set_new_amount")
                  THEN updated.err
                  ELSE n.err
       IN /\ ~selecting =>
                 /\ id_to_update \in id_list(txs, transaction_type)
                 /\ loop.done
                 /\ loop.rest = <<>>
                 /\ updated_amount.bound
          /\ txs' = IF selecting THEN txs ELSE updated.table
          /\ out' = [NoOut EXCEPT
                        !.notice = IF err = "none" THEN n.notice ELSE "none",
                        !.err = err, !.fault = fault]
          /\ pc' = IF err = "none" THEN "prompt" ELSE "dead"
    /\ UNCHANGED <<cats, budgets, goals, everIds, hist, today, now>>

(* delete_category -> null_deleted_category with a failing statement.  An
   empty category_map refuses every entry and the prompt comes again with
   the map read anew. *)
DeleteCategoryFaults ==
    {<<"delete_category", "get_category_map">>,
     <<"Category.does_exist", "execute">>,
     <<"null_deleted_category", "select">>}
        \cup WriteFaults("Category.delete")
        \cup WriteFaults("Transaction.category_to_null")

DeleteCategoryFaulty(delete_choice, fault) ==
    /\ pc = "prompt"
    /\ fault \in DeleteCategoryFaults
    /\ delete_choice \in DOMAIN get_category_map(cats)
    /\ Category_does_exist(cats, get_category_map(cats)[delete_choice])
    /\ fault \in WriteFaults("Transaction.category_to_null") =>
           \E i \in DOMAIN txs : txs[i].category_id = delete_choice
    /\ LET deleted == write_statement(cats, Category_delete(cats, delete_choice),
                                      FaultAt(fault, "Category.delete"))
           nulled ==
               IF fault = <<"null_deleted_category", "select">>
               THEN [table |-> txs, err |-> "sqlite3.Error"]
               ELSE write_statement(txs,
                                    null_deleted_category(txs, delete_choice),
                                    FaultAt(fault, "Transaction.category_to_null"))
           err == IF fault = <<"Category.does_exist", "execute">>
                  THEN "sqlite3.Error"
                  ELSE IF deleted.err # "none" THEN deleted.err
                  ELSE nulled.err
       IN /\ cats' = IF fault = <<"Category.does_exist", "execute">>
                     THEN cats ELSE deleted.table
          /\ txs' = IF fault = <<"Category.does_exist", "execute">>
                       \/ deleted.err # "none"
                    THEN txs ELSE nulled.table
          /\ out' = [NoOut EXCEPT !.err = err, !.fault = fault]
          /\ pc' = IF err = "none" THEN "prompt" ELSE "dead"
    /\ UNCHANGED <<budgets, goals, everIds, hist, today, now>>

(* set_category -> ... -> enter_budget with a failing statement; after the
   insert Budget.add reads the category map to print the category's name *)
SetBudgetFaults ==
    {<<"set_category", "get_category_map">>, <<"Budget.add", "get_category_map">>}
        \cup WriteFaults("Budget.add")

SetBudgetFaulty(class_category, amount_entry, start_date, end_date, fault) ==
    /\ pc = "prompt"
    /\ Len(budgets) < MaxBudgets
    /\ fault \in SetBudgetFaults
    /\ class_category \in DOMAIN get_category_map(cats)
    /\ set_amount_accepts(amount_entry)
    /\ ~(end_date < start_date)
    /\ LET added ==
               write_statement(budgets,
                   Budget_add(budgets,
                       [category_id |-> class_category,
                        budget_amount |-> amount_entry.val,
                        start_date |-> start_date, end_date |-> end_date]),
                   FaultAt(fault, "Budget.add"))
           category_map ==
               get_category_map_st(cats,
                                   fault = <<"Budget.add", "get_category_map">>)
           err == IF added.err # "none" THEN added.err
                  ELSE IF class_category \notin DOMAIN category_map
                  THEN "KeyError" ELSE "none"
       IN /\ budgets' = added.table
          /\ out' = [NoOut EXCEPT !.err = err, !.fault = fault]
          /\ pc' = IF err = "none" THEN "prompt" ELSE "dead"
    /\ UNCHANGED <<cats, txs, goals, everIds, hist, today, now>>

(* set_category -> ... -> enter_goal with a failing statement; after the
   insert the Goal is printed, and Goal.__str__ reads the category map *)
SetGoalFaults ==
    {<<"set_category", "get_category_map">>, <<"Goal.__str__", "get_category_map">>}
        \cup WriteFaults("Goal.add")

SetGoalFaulty(class_category, amount_entry, due_date, fault) ==
    /\ pc = "prompt"
    /\ Len(goals) < MaxGoals
    /\ fault \in SetGoalFaults
    /\ class_category \in DOMAIN get_category_map(cats)
    /\ set_amount_accepts(amount_entry)
    /\ ~(due_date < today)
    /\ LET added ==
               write_statement(goals,
                   Goal_add(goals,
                       [category_id |-> class_category,
                        goal_target |-> amount_entry.val,
                        due_date |-> due_date]),
                   FaultAt(fault, "Goal.add"))
           category_map ==
               get_category_map_st(cats,
                                   fault = <<"Goal.__str__", "get_category_map">>)
           err == IF added.err # "none" THEN added.err
                  ELSE IF class_category \notin DOMAIN category_map
                  THEN "KeyError" ELSE "none"
       IN /\ goals' = added.table
          /\ out' = [NoOut EXCEPT !.err = err, !.fault = fault]
          /\ pc' = IF err = "none" THEN "prompt" ELSE "dead"
    /\ UNCHANGED <<cats, txs, budgets, everIds, hist, today, now>>

(* Goal.progress with a failing statement: a failed SELECT sum() is caught
   and the error text is returned as the progress message; with an empty
   category map every message raises KeyError where it names the category *)
Goal_progress_st(self, progress_choice, t, fault) ==
    LET r == Goal_progress(self, progress_choice, t)
    IN IF fault = <<"Goal.progress", "select">>
       THEN Report("store_error_text", 0, 0, 0, "none")
       ELSE IF fault = <<"Goal.progress", "get_category_map">>
               /\ r.err = "none"
       THEN Report("error", 0, 0, 0, "KeyError")
       ELSE r

(* view_progress -> display_progress with a failing statement; a statement
   of Goal.progress fails in the call for the first Goal listed *)
ViewProgressFaults ==
    {<<"view_progress", "get_category_map">>, <<"display_progress", "select">>,
     <<"Goal.progress", "get_category_map">>, <<"Goal.progress", "select">>}

ViewProgressFaulty(progress_choice, fault) ==
    /\ pc = "prompt"
    /\ fault \in ViewProgressFaults
    /\ progress_choice \in DOMAIN get_category_map(cats)
    /\ LET results == goals_by_category(goals, progress_choice)
           first == Goal_progress_st(Head(results), progress_choice, txs, fault)
           reports ==
               IF fault = <<"display_progress", "select">> \/ results = <<>>
               THEN <<>>
               ELSE IF first.err # "none" THEN <<first>>
               ELSE <<first>> \o print_goal_results(Tail(results),
                                                    progress_choice, txs)
           failed == \E i \in DOMAIN reports : reports[i].err # "none"
           err == IF fault = <<"display_progress", "select">>
                  THEN "sqlite3.Error"
                  ELSE IF failed THEN reports[Len(reports)].err
                  ELSE "none"
       IN /\ fault[1] = "Goal.progress" => results # <<>>
          /\ out' = [NoOut EXCEPT !.reports = reports, !.err = err,
                                  !.fault = fault]
          /\ pc' = IF err = "none" THEN "prompt" ELSE "dead"
    /\ UNCHANGED <<cats, txs, budgets, goals, everIds, hist, today, now>>

(* SpecStore: every handler, with the store working or failing at one of
   its statements *)

AddTransactionFaultyStep(TypeSet, Picks, Names, Entries) ==
    \E transaction_type \in TypeSet, new_category \in Picks \cup {ADD_NEW},
       category_name \in Names, new_recipient \in RecipientEntries,
       amount_entry \in Entries, fault \in AddTransactionFaults :
        AddTransactionFaulty(transaction_type, new_category, category_name,
                             new_recipient, amount_entry, fault)

UpdateAmountFaultyStep(Entries) ==
    \E transaction_type \in Types, id_to_update \in 0..MaxTx,
       entries \in [1..1 -> Entries], fault \in UpdateAmountFaults :
        UpdateAmountFaulty(transaction_type, id_to_update, entries, fault)

DeleteCategoryFaultyStep(Picks) ==
    \E delete_choice \in Picks, fault \in DeleteCategoryFaults :
        DeleteCategoryFaulty(delete_choice, fault)

SetBudgetFaultyStep(Picks, Entries, Dates) ==
    \E class_category \in Picks, amount_entry \in Entries,
       start_date \in Dates, end_date \in Dates, fault \in SetBudgetFaults :
        SetBudgetFaulty(class_category, amount_entry, start_date, end_date,
                        fault)

SetGoalFaultyStep(Picks, Entries, Dates) ==
    \E class_category \in Picks, amount_entry \in Entries,
       due_date \in Dates, fault \in SetGoalFaults :
        SetGoalFaulty(class_category, amount_entry, due_date, fault)

ViewProgressFaultyStep(Picks) ==
    \E progress_choice \in Picks, fault \in ViewProgressFaults :
        ViewProgressFaulty(progress_choice, fault)

NextStore ==
    \/ AddTransactionStep({"Expense"}, UserCats, {Blank, EAcuteUpper}, {Num(2)})
    \/ AddTransactionFaultyStep({"Expense"}, UserCats, {Blank, EAcuteUpper}, {Num(2)})
    \/ UpdateAmountFaultyStep({Num(1)})
    \/ DeleteCategoryStep(UserCats)
    \/ DeleteCategoryFaultyStep(UserCats)
    \/ SetBudgetStep({4}, {Num(2)}, {0})
    \/ SetBudgetFaultyStep({4}, {Num(2)}, {0})
    \/ SetGoalStep({4}, {Num(2)}, {0})
    \/ SetGoalFaultyStep({4}, {Num(2)}, {0})
    \/ ViewProgressFaultyStep({4})
    \/ Restart

SpecStore == Init /\ [][NextStore]_vars

----------------------------------------------------------------------------
(* Sums as the properties state them: plain arithmetic sums, 0 over nothing *)

RECURSIVE SumOver(_, _)
SumOver(f, S) ==
    IF S = {} THEN 0
    ELSE LET i == CHOOSE j \in S : TRUE
         IN f[i] + SumOver(f, S \ {i})

TxTotal(transaction_type, category_id) ==
    SumOver([i \in DOMAIN txs |-> txs[i].amount],
            {i \in DOMAIN txs : /\ txs[i].type = transaction_type
                                /\ txs[i].category_id = category_id})

BudgetTotal(category_id) ==
    SumOver([i \in DOMAIN budgets |-> budgets[i].amount],
            {i \in DOMAIN budgets : budgets[i].category_id = category_id})

Removed == DOMAIN cats \ DOMAIN cats'
Created == DOMAIN cats' \ DOMAIN cats

----------------------------------------------------------------------------
(* C1: no two categories of the registry have names that are equal when
   case is ignored (a name that differs from an existing one only in case
   is refused). *)
C1_NoCaseInsensitiveDuplicates ==
    \A i, j \in DOMAIN cats :
        i # j => CaseFold(cats[i]) # CaseFold(cats[j])

(* What does_exist does enforce: no two names are equal once their ASCII
   letters are lowered. *)
C1_NoAsciiCaseDuplicates ==
    \A i, j \in DOMAIN cats : i # j => LOWER(cats[i]) # LOWER(cats[j])

(* C2: a step that deletes category c leaves every Transaction row in
   place (same count, same ids) and sets category_id to NULL in every row
   that referenced c. *)
C2_DeleteNullsAndKeepsRows ==
    [][\A c \in Removed :
          /\ Len(txs') = Len(txs)
          /\ \A i \in DOMAIN txs :
                /\ txs'[i].id = txs[i].id
                /\ txs[i].category_id = c => txs'[i].category_id = NULL]_vars

(* a category with a Transaction has been deleted, next to a Transaction of
   another category *)
C2_Witness ==
    /\ \E i \in DOMAIN txs : txs[i].category_id = NULL
    /\ \E i \in DOMAIN txs : txs[i].category_id # NULL

(* C3: once the delete-category action has completed, no row of
   Transactions, Budgets or Goals has the deleted category's id. *)
C3_DeleteLeavesNoReference ==
    [][\A c \in Removed :
          /\ \A i \in DOMAIN txs' : txs'[i].category_id # c
          /\ \A i \in DOMAIN budgets' : budgets'[i].category_id # c
          /\ \A i \in DOMAIN goals' : goals'[i].category_id # c]_vars

(* C4: the id of a newly created (or seeded) category is different from
   the id of every category that has existed before. *)
C4_IdsNeverReused ==
    [][\A id \in Created : id \notin everIds]_vars

(* C5: every stored Transaction has amount >= 0. *)
C5_AmountsNonNegative ==
    \A i \in DOMAIN txs : txs[i].amount >= 0

(* C6: for every type and category, a notice is given exactly when the
   Budgets of the category sum to more than 0 and the Transactions of that
   type and category sum to more than 90% of it (strictly); the notice is
   the warning for Expense and the informational one for Income. *)
C6_ThresholdNotice ==
    \A transaction_type \in Types, category_id \in CatIds :
        LET n == budget_notice(transaction_type, category_id,
                               txs, budgets, cats)
            ts == TxTotal(transaction_type, category_id)
            bs == BudgetTotal(category_id)
        IN /\ n.notice # "none" <=> (bs > 0 /\ 10 * ts > 9 * bs)
           /\ n.notice # "none" =>
                  n.notice = IF transaction_type = "Expense"
                             THEN "warning" ELSE "info"

(* an Income was just added that took Food over 90% of its Budget, while
   its Expenses stand at exactly 90% and get no notice *)
C6_Witness ==
    /\ out.notice = "info"
    /\ BudgetTotal(4) > 0
    /\ 10 * TxTotal("Expense", 4) = 9 * BudgetTotal(4)
    /\ budget_notice("Expense", 4, txs, budgets, cats).notice = "none"

(* The report the progress rules select for target t and the two sums *)
ExpectedReport(t, income_sum, expense_sum) ==
    LET net == income_sum - expense_sum
    IN IF income_sum = 0 /\ expense_sum = 0 THEN "no_transactions"
       ELSE IF net >= 0 /\ 100 * net >= 100 * t THEN "achieved"
       ELSE IF net >= 0 THEN "percent"
       ELSE "deficit"

ReportKinds == {"no_transactions", "achieved", "percent", "deficit"}

(* C7: for every stored Goal, progress gives exactly one of the four
   reports, the one selected by the sums of its category: none found when
   both are zero, else achieved when net >= 0 and 100*net/t >= 100, else
   the percentage when net >= 0, else the deficit. *)
C7_ProgressSelectsReport ==
    \A i \in DOMAIN goals :
        LET g == goals[i]
            r == Goal_progress(g, g.category_id, txs)
        IN /\ r.kind \in ReportKinds
           /\ r.kind = ExpectedReport(g.target,
                                      TxTotal("Income", g.category_id),
                                      TxTotal("Expense", g.category_id))

(* The selection holds for every Goal whose target is above zero. *)
C7_PositiveTargets ==
    \A i \in DOMAIN goals :
        LET g == goals[i]
            r == Goal_progress(g, g.category_id, txs)
        IN g.target > 0 =>
               r.kind = ExpectedReport(g.target,
                                       TxTotal("Income", g.category_id),
                                       TxTotal("Expense", g.category_id))

(* C8: when net < 0 the report is the deficit, and the deficit is
   |net - target| = target + (expense_sum - income_sum), for every
   target >= 0. *)
C8_Deficit ==
    \A i \in DOMAIN goals :
        LET g == goals[i]
            r == Goal_progress(g, g.category_id, txs)
            income_sum == TxTotal("Income", g.category_id)
            expense_sum == TxTotal("Expense", g.category_id)
        IN income_sum - expense_sum < 0 =>
               /\ r.kind = "deficit"
               /\ r.deficit = g.target + (expense_sum - income_sum)
               /\ r.deficit >= 0

(* the progress view has shown a deficit against a target above zero *)
C8_Witness ==
    \E i \in DOMAIN out.reports :
        /\ out.reports[i].kind = "deficit"
        /\ out.reports[i].deficit > TxTotal("Expense", 4)
        /\ TxTotal("Income", 4) > 0

(* C9: at every prompt, every Transaction with a category_id references a
   category of the registry: the delete action removes the row and nulls
   the Transactions before the user is asked again. *)
C9_NoDanglingCategory ==
    pc = "prompt" =>
        \A i \in DOMAIN txs :
            txs[i].category_id # NULL => txs[i].category_id \in DOMAIN cats

(* Food has been deleted while it had a Transaction, and a category created
   later has one too *)
C9_Witness ==
    /\ 4 \notin DOMAIN cats
    /\ \E i \in DOMAIN txs : txs[i].category_id = NULL
    /\ \E i \in DOMAIN txs : txs[i].category_id \in DOMAIN cats
    /\ pc = "prompt"

(* C10: after inserts only, the amounts of the rows listed for a (type,
   category) add up to the amounts entered for it, and a listing shown
   with no write since is what the same listing returns again. *)
C10_ListedSumIsInsertedSum ==
    /\ \A transaction_type \in Types, category_id \in CatIds :
          SeqSum(Amounts(transaction_by_category(txs, transaction_type,
                                                 category_id)))
              = hist[<<transaction_type, category_id>>]
    /\ out.view # "none" =>
          out.rows = transaction_by_category(txs, out.view, out.cat)

(* a listing of two rows of one type and category, next to... *)
C10_Witness ==
    /\ out.view # "none"
    /\ Len(out.rows) = MaxTx
    /\ hist[<<out.view, out.cat>>] > 2

(* C11: from the four seeded categories, a step that creates a category
   gives it id 5, and the Transaction entered with it is then the one row
   listed for its type in category 5; a step that deletes category 5 keeps
   each of its rows in the unfiltered listing of its type, with
   category_id NULL, and leaves nothing listed in category 5. *)
C11_Scenario ==
    [][/\ (cats = add_default_category(<<>>) /\ Created # {}) =>
              LET new == txs'[Len(txs')]
              IN /\ Created = {5}
                 /\ Len(txs') = Len(txs) + 1
                 /\ new.category_id = 5
                 /\ transaction_by_category(txs', new.type, 5) = <<new>>
       /\ 5 \in Removed =>
              \A i \in DOMAIN txs :
                  txs[i].category_id = 5 =>
                      /\ transaction_by_category(txs', txs[i].type, 5) = <<>>
                      /\ \E j \in DOMAIN view_all_transactions(txs', txs[i].type) :
                             view_all_transactions(txs', txs[i].type)[j] =
                                 [txs[i] EXCEPT !.category_id = NULL]]_vars

(* the scenario has been played: Utilities got id 5 and an Expense of 120,
   was deleted, and the listing of all Expenses shows the row without a
   category *)
C11_Witness ==
    /\ cats = add_default_category(<<>>)
    /\ 5 \in everIds
    /\ out.view = "Expense" /\ out.all
    /\ \E j \in DOMAIN out.rows :
           /\ out.rows[j].amount = 120
           /\ out.rows[j].recipient = "PowerCo"
           /\ out.rows[j].category_id = NULL

(* C12: budget_notice is a pure read: for every type and category and in
   every state of the store, the rows of Transactions, Categories, Budgets
   and Goals after it has run are the rows before. *)
C12_NoticeIsPureRead ==
    \A transaction_type \in Types, category_id \in CatIds :
        budget_notice_leaves(transaction_type, category_id,
                             txs, budgets, goals, cats)
            = [txs |-> txs, budgets |-> budgets, goals |-> goals,
               cats |-> cats]

(* the warning has been given for Food, whose Budget and Expenses are all
   still there *)
C12_Witness ==
    /\ out.notice = "warning"
    /\ BudgetTotal(4) > 0
    /\ 10 * TxTotal("Expense", 4) > 9 * BudgetTotal(4)
    /\ Len(txs) = MaxTx

(* C13: updating the amount of transaction id changes the amount field of
   the row with that id and nothing else: every other field of that row
   and every other row stay as they are, and with an id that no row has
   the table is unchanged.  A step that rewrites a Transaction in place
   has changed one row, in its amount only, and no other table. *)
C13_UpdateChangesAmountOnly ==
    /\ [](\A transaction_id \in 0..(MaxTx + 1), new_amount \in {-1, 0, 2} :
            LET t1 == Transaction_set_new_amount(txs, new_amount,
                                                 transaction_id)
            IN /\ DOMAIN t1 = DOMAIN txs
               /\ \A i \in DOMAIN txs :
                      t1[i] = IF txs[i].id = transaction_id
                              THEN [txs[i] EXCEPT !.amount = new_amount]
                              ELSE txs[i]
               /\ (\A i \in DOMAIN txs : txs[i].id # transaction_id)
                      => t1 = txs)
    /\ [][(cats' = cats /\ Len(txs') = Len(txs) /\ txs' # txs) =>
              /\ Cardinality({i \in DOMAIN txs : txs'[i] # txs[i]}) = 1
              /\ \A i \in DOMAIN txs :
                     txs'[i] = [txs[i] EXCEPT !.amount = txs'[i].amount]
              /\ UNCHANGED <<budgets, goals>>]_vars

(* one Transaction has been updated to an amount no insert accepts, next to
   one that still has the amount it was entered with *)
C13_Witness ==
    /\ \E i \in DOMAIN txs : txs[i].amount = -1
    /\ \E i \in DOMAIN txs : txs[i].amount = 2
    /\ out.err = "none"

(* C14: whenever a statement of the store fails during a handler, the
   operation that ran it ends in an error: the handler does not go on to
   the next prompt with a normal result. *)
C14_StoreFailureSurfaces ==
    out.fault # NoFault => (out.err # "none" /\ pc = "dead")

(* What the code does give: a failure in a statement of a class method
   that writes, of Category.does_exist or of a handler's own SELECT is
   raised as sqlite3.Error. *)
C14_RaisingStatements ==
    (/\ out.fault[2] \in {"execute", "commit", "select"}
     /\ out.fault[1] # "Goal.progress")
        => (out.err = "sqlite3.Error" /\ pc = "dead")

(* C15: a step in which the insert of a Transaction, Budget or Goal, the
   update of an amount, or the insert or delete of a category fails with a
   store error leaves the four tables as they were when that write began:
   nothing has changed, but for the category that add_category had
   committed before the failed insert of its Transaction began. *)
C15_FailedWriteLeavesNoPartialState ==
    [][(/\ out'.fault[2] \in {"execute", "commit"}
        /\ out'.fault[1] \in {"Transaction.add", "Transaction.set_new_amount",
                              "Category.add", "Category.delete",
                              "Budget.add", "Goal.add"})
          => /\ out'.err = "sqlite3.Error"
             /\ UNCHANGED <<txs, budgets, goals>>
             /\ out'.fault[1] # "Transaction.add" => UNCHANGED cats
             /\ out'.fault[1] = "Transaction.add" =>
                    \/ UNCHANGED cats
                    \/ \E category_name \in NameEntries :
                          cats' = Category_add(cats, category_name)]_vars

(* the commit of an amount update has failed, with two Transactions stored:
   both still have the amount entered *)
C15_Witness ==
    /\ out.fault = <<"Transaction.set_new_amount", "commit">>
    /\ out.err = "sqlite3.Error"
    /\ Len(txs) = MaxTx
    /\ \A i \in DOMAIN txs : txs[i].amount = 2

(* C16: deleting by id removes the category with that id, and no other,
   whenever the registry has it, whatever Transactions, Budgets and Goals
   reference it; an id the registry does not have is refused and the
   registry stays as it is.  A step that removes a category removes one
   and leaves the others as they were. *)
C16_DeleteRemovesExactlyThatCategory ==
    /\ [](\A id \in 0..(MaxCatId + 1) :
            LET entry == delete_category_entry(cats, id)
            IN IF id \in DOMAIN cats
               THEN /\ entry.refused = "none"
                    /\ DOMAIN entry.cats = DOMAIN cats \ {id}
                    /\ \A j \in DOMAIN entry.cats : entry.cats[j] = cats[j]
               ELSE /\ entry.refused # "none"
                    /\ entry.cats = cats)
    /\ [][Removed # {} =>
              /\ Cardinality(Removed) = 1
              /\ \A j \in DOMAIN cats \ Removed :
                     j \in DOMAIN cats' /\ cats'[j] = cats[j]]_vars

(* Food has been deleted, after an id that is no category was refused,
   while a Transaction, a Budget and a Goal referenced it; the category
   created after it is still there *)
C16_Witness ==
    /\ out.refused = "Invalid entry"
    /\ 4 \notin DOMAIN cats
    /\ 5 \in DOMAIN cats
    /\ \E i \in DOMAIN txs : txs[i].category_id = NULL
    /\ \E i \in DOMAIN budgets : budgets[i].category_id = 4
    /\ \E i \in DOMAIN goals : goals[i].category_id = 4

(* C17: a start-up that finds the registry empty leaves it with exactly
   1:Bills, 2:Personal, 3:Travel, 4:Food; a start-up that finds it
   non-empty leaves it unchanged, so that seeding twice is seeding once. *)
C17_StartupSeeding ==
    /\ [](/\ add_default_category(add_default_category(cats))
               = add_default_category(cats)
          /\ DOMAIN cats # {} => add_default_category(cats) = cats)
    /\ [][Restart =>
              IF DOMAIN cats = {}
              THEN /\ DOMAIN cats' = {1, 2, 3, 4}
                   /\ cats'[1] = Bills /\ cats'[2] = Personal
                   /\ cats'[3] = Travel /\ cats'[4] = Food
              ELSE cats' = cats]_vars

(* the registry has been emptied and seeded again: no id above 4 has ever
   existed, a Transaction of a deleted category has no category, and the
   four categories are there under their names *)
C17_Witness ==
    /\ everIds = {1, 2, 3, 4}
    /\ DOMAIN cats = {1, 2, 3, 4}
    /\ cats[1] = Bills /\ cats[2] = Personal
    /\ cats[3] = Travel /\ cats[4] = Food
    /\ \E i \in DOMAIN txs : txs[i].category_id = NULL
    /\ pc = "prompt"

(* C18: no step removes a row of Transactions, Budgets or Goals: every
   Transaction stays at its place with its id (the ids only grow), and
   every Budget and every Goal stays exactly as it was inserted. *)
C18_RowsAreNeverRemoved ==
    [][/\ \A i \in DOMAIN txs :
              i \in DOMAIN txs' /\ txs'[i].id = txs[i].id
       /\ \A i \in DOMAIN budgets :
              i \in DOMAIN budgets' /\ budgets'[i] = budgets[i]
       /\ \A i \in DOMAIN goals :
              i \in DOMAIN goals' /\ goals'[i] = goals[i]]_vars

(* Food has been deleted and the program started again: its Budget and its
   Goal are there, and so are its Transactions, one of them with an
   updated amount *)
C18_Witness ==
    /\ 4 \notin DOMAIN cats
    /\ \E i \in DOMAIN budgets : budgets[i].category_id = 4
    /\ \E i \in DOMAIN goals : goals[i].category_id = 4
    /\ Len(txs) = MaxTx
    /\ \E i \in DOMAIN txs : txs[i].category_id = NULL /\ txs[i].amount = -1
    /\ out = NoOut

(* C19: the due_date of a Goal is not earlier than the calendar date of
   the step that inserts it, also when the date has changed since the
   program was started. *)
C19_DueDateNotInThePast ==
    [][Len(goals') > Len(goals) =>
           goals'[Len(goals')].due_date >= now]_vars

(* What set_goal_due_date does check: the due_date is not earlier than
   today, the date on which the program was started. *)
C19_DueDateNotBeforeStartup ==
    [][Len(goals') > Len(goals) =>
           goals'[Len(goals')].due_date >= today]_vars

(* C20: every stored Budget has end >= start and amount >= 0, and the
   category a Budget is inserted for is in the registry when it is
   inserted. *)
C20_BudgetsAreValid ==
    /\ [](\A i \in DOMAIN budgets :
            /\ budgets[i].end >= budgets[i].start
            /\ budgets[i].amount >= 0)
    /\ [][Len(budgets') > Len(budgets) =>
              budgets'[Len(budgets')].category_id \in DOMAIN cats]_vars

(* a Budget over two days was set for a category created in the session,
   which has been deleted since *)
C20_Witness ==
    \E i \in DOMAIN budgets :
        /\ budgets[i].end > budgets[i].start
        /\ budgets[i].amount > 0
        /\ budgets[i].category_id = 5
        /\ 5 \in everIds
        /\ 5 \notin DOMAIN cats

(* C21: the budget_sum of the notice is the sum of the amounts of every
   Budget of the category, whatever its period, and the transaction_sum is
   the sum of every Transaction of the type and category, whatever its
   date; the notice is decided by these two sums alone. *)
C21_AllBudgetsAreSummed ==
    \A transaction_type \in Types, category_id \in CatIds :
        LET n == budget_notice(transaction_type, category_id,
                               txs, budgets, cats)
        IN /\ OrZero(budget_sum(budgets, category_id))
                  = BudgetTotal(category_id)
           /\ OrZero(transaction_sum(txs, transaction_type, category_id))
                  = TxTotal(transaction_type, category_id)
           /\ n.notice = "warning" <=>
                  /\ transaction_type = "Expense"
                  /\ BudgetTotal(category_id) > 0
                  /\ 10 * TxTotal(transaction_type, category_id)
                         > 9 * BudgetTotal(category_id)

(* Food has two Budgets of 10 whose periods overlap, and Expenses of 19
   dated before both periods: the warning was given for the last Expense,
   which a single Budget of 10 would have got from the first one already *)
C21_Witness ==
    /\ out.notice = "warning"
    /\ Len(budgets) = 2
    /\ budgets[1].category_id = 4 /\ budgets[2].category_id = 4
    /\ budgets[1].start < budgets[2].start
    /\ budgets[2].start <= budgets[1].end
    /\ \A i \in DOMAIN txs :
           /\ txs[i].category_id = 4
           /\ \A j \in DOMAIN budgets : txs[i].date < budgets[j].start
    /\ TxTotal("Expense", 4) = 19
    /\ BudgetTotal(4) = 20

(* C22: the days_left of a progress report is due_date - today in whole
   days, without clamping: it is below zero exactly when the due date is
   before today; the percentage report and the deficit report both carry
   it, in what progress returns and in what the progress view has shown. *)
C22_DaysLeftUnclamped ==
    /\ \A i \in DOMAIN goals :
           LET g == goals[i]
               r == Goal_progress(g, g.category_id, txs)
           IN r.kind \in {"percent", "deficit"} =>
                  /\ r.days_left = g.due_date - today
                  /\ r.days_left < 0 <=> g.due_date < today
    /\ \A i \in DOMAIN out.reports :
           out.reports[i].kind \in {"percent", "deficit"} =>
               out.reports[i].days_left
                   = goals_by_category(goals, 4)[i].due_date - today

(* the program was started the day after the due date of a Goal of Food,
   and the progress view has shown the deficit with minus one day left *)
C22_Witness ==
    /\ today = 1
    /\ Len(out.reports) = 1
    /\ out.reports[1].kind = "deficit"
    /\ out.reports[1].days_left = -1
    /\ goals[1].due_date = 0

(* the same Goal with an Income below its target: the percentage is shown
   with minus one day left *)
C22_WitnessPercent ==
    /\ today = 1
    /\ Len(out.reports) = 1
    /\ out.reports[1].kind = "percent"
    /\ out.reports[1].days_left = -1

(* C23: in the update-amount flow an entry that is not a number, is blank
   or is negative is refused and asked again: a step of the flow hands
   Transaction.set_new_amount an amount that is defined and not negative,
   so it does not end with the amount variable unassigned and the amount it
   writes is not below zero. *)
C23_UpdateRefusesInvalidAmounts ==
    [][(/\ cats' = cats
        /\ Len(txs') = Len(txs)
        /\ txs' # txs \/ out'.err = "UnboundLocalError")
          => /\ out'.err # "UnboundLocalError"
             /\ \A i \in DOMAIN txs :
                    txs'[i].amount # txs[i].amount => txs'[i].amount >= 0]_vars

(* What the loop of execute_update does refuse: the entry 0, which it calls
   blank, is asked again. *)
C23_ZeroIsAskedAgain ==
    \A entries \in [1..1 -> AmountEntries] :
        entries[1] = Num(0) => ~execute_update_loop(entries, Unbound).done

(* C24: budget_notice is total: for every type and every category id,
   those that are not in the registry and those that have Budgets but no
   Transaction of the type included, it ends with a notice or with none
   and not with an exception; so no handler that calls it dies in it. *)
C24_NoticeIsTotal ==
    /\ \A transaction_type \in Types, category_id \in 1..(MaxCatId + 1) :
           budget_notice(transaction_type, category_id,
                         txs, budgets, cats).err = "none"
    /\ out.err \notin {"TypeError", "KeyError"}

(* What does hold: with a Transaction of the type in the category, or no
   Budget of a sum above zero, and the category in the registry,
   budget_notice ends without an exception. *)
C24_TotalWhereSumsExist ==
    \A transaction_type \in Types, category_id \in DOMAIN cats :
        (\/ BudgetTotal(category_id) = 0
         \/ \E i \in DOMAIN txs : /\ txs[i].type = transaction_type
                                   /\ txs[i].category_id = category_id)
            => budget_notice(transaction_type, category_id,
                             txs, budgets, cats).err = "none"

(* C25: for every stored Goal, a target of 0 included, and every ledger of
   its category, progress returns one of the four reports and raises no
   exception; so the progress view does not die in it. *)
C25_ProgressIsTotal ==
    /\ \A i \in DOMAIN goals :
           LET r == Goal_progress(goals[i], goals[i].category_id, txs)
           IN r.err = "none" /\ r.kind \in ReportKinds
    /\ out.err # "ZeroDivisionError"

(* What does hold: progress is total over the Goals with a target above
   zero. *)
C25_TotalForPositiveTargets ==
    \A i \in DOMAIN goals :
        LET r == Goal_progress(goals[i], goals[i].category_id, txs)
        IN goals[i].target > 0 => (r.err = "none" /\ r.kind \in ReportKinds)

(* C26: the notice of a step that updates the amount of a Transaction is
   the one budget_notice computes for the type and the category of that
   Transaction (none for a Transaction without a category), as the notice
   of an insert is the one for the inserted Transaction's category. *)
C26_UpdateNoticeIsForTheCategory ==
    [][(cats' = cats /\ Len(txs') = Len(txs) /\ txs' # txs) =>
          \A i \in DOMAIN txs :
              txs'[i] # txs[i] =>
                  LET n == IF txs[i].category_id = NULL THEN NoNotice
                           ELSE budget_notice(txs[i].type, txs[i].category_id,
                                              txs', budgets', cats')
                  IN out'.notice = n.notice /\ out'.err = n.err]_vars

(* What execute_update does: the notice is the one of the category whose
   id is the id of the updated Transaction. *)
C26_UpdateNoticeIsForTheTransactionId ==
    [][(cats' = cats /\ Len(txs') = Len(txs) /\ txs' # txs) =>
          \A i \in DOMAIN txs :
              txs'[i] # txs[i] =>
                  LET n == budget_notice(txs[i].type, txs[i].id,
                                         txs', budgets', cats')
                  IN out'.notice = n.notice /\ out'.err = n.err]_vars

(* The notice of an insert is the one of the inserted row's category. *)
C26_InsertNoticeIsForTheCategory ==
    [][Len(txs') > Len(txs) =>
          LET new == txs'[Len(txs')]
              n == budget_notice(new.type, new.category_id,
                                 txs', budgets', cats')
          IN out'.notice = n.notice /\ out'.err = n.err]_vars

(* C27: a category created by add_category starts empty: when the step
   that creates it begins no Transaction has its id, and when it ends no
   Budget and no Goal has it, so the Transaction entered with it gets no
   notice (its Budgets sum to nothing). *)
C27_NewCategoryStartsEmpty ==
    [][(Created # {} /\ Len(txs') > Len(txs)) =>
          \A id \in Created :
              /\ \A i \in DOMAIN txs : txs[i].category_id # id
              /\ \A i \in DOMAIN budgets' : budgets'[i].category_id # id
              /\ \A i \in DOMAIN goals' : goals'[i].category_id # id
              /\ out'.notice = "none"]_vars

(* What does hold: no Transaction has the id of the category being
   created, the rows of a deleted category having been set to NULL. *)
C27_NoTransactionOfTheNewCategory ==
    [][(Created # {} /\ Len(txs') > Len(txs)) =>
          \A id \in Created :
              \A i \in DOMAIN txs : txs[i].category_id # id]_vars

(* C28: no prompt is a dead end: at the home menu the user can quit, and at
   the first prompt of a handler some entries take the program back to the
   "another? (Y/N)" prompt, from which N and menu entry 11 quit. *)
C28_NoPromptIsADeadEnd ==
    /\ pc = "prompt" => ENABLED Quit
    /\ pc \in SubPrompts => ENABLED (NextPrompts /\ pc' = "prompt")

(* What does hold: a prompt that has something to choose from is no dead
   end: the id prompt of update_amount when a Transaction of the type
   exists, the category prompts when the registry is not empty. *)
C28_PromptsWithChoices ==
    /\ pc = "prompt" => ENABLED Quit
    /\ \A transaction_type \in Types :
           (/\ pc = update_amount_prompt(transaction_type)
            /\ id_list(txs, transaction_type) # {})
               => ENABLED (NextPrompts /\ pc' = "prompt")
    /\ (pc = "delete_category" /\ DOMAIN cats # {})
           => ENABLED (NextPrompts /\ pc' = "prompt")
    /\ (pc = "set_category(Goal)" /\ DOMAIN cats # {})
           => ENABLED (NextPrompts /\ pc' = "prompt")

(* C29: nulling category d changes exactly the Transactions whose
   category_id is d: their category_id becomes NULL and their other fields
   stay, every other Transaction (those without a category included) stays
   as it is, and nulling d a second time changes nothing more.  This holds
   of the single UPDATE, of null_deleted_category, and of every step that
   removes a category. *)
C29_NullingIsExactAndIdempotent ==
    /\ [](\A d \in CatIds :
            LET once == null_deleted_category(txs, d)
                update == Transaction_category_to_null(txs, d)
            IN /\ DOMAIN once = DOMAIN txs
               /\ \A i \in DOMAIN txs :
                      once[i] = IF txs[i].category_id = d
                                THEN [txs[i] EXCEPT !.category_id = NULL]
                                ELSE txs[i]
               /\ update = once
               /\ null_deleted_category(once, d) = once
               /\ Transaction_category_to_null(update, d) = update)
    /\ [][\A d \in Removed :
              /\ DOMAIN txs' = DOMAIN txs
              /\ \A i \in DOMAIN txs :
                     txs'[i] = IF txs[i].category_id = d
                               THEN [txs[i] EXCEPT !.category_id = NULL]
                               ELSE txs[i]]_vars

(* Food was deleted while it had the first Transaction and the category
   created after it had the second: the first has no category, the second
   is as it was entered *)
C29_Witness ==
    /\ Len(txs) = 2
    /\ txs[1].category_id = NULL
    /\ txs[2].category_id = 5
    /\ txs[2].amount = 2
    /\ 4 \notin DOMAIN cats
    /\ 5 \in DOMAIN cats
    /\ out = NoOut

(* C30: the Transaction of a step that creates a category is stored with
   the id the store gave that category; the Transaction of a step that
   takes a listed category is stored with exactly the id chosen (the one
   the amount was entered for), which was in the registry when the step
   began, and the registry stays as it was. *)
C30_StoredUnderTheChosenCategory ==
    [][Len(txs') > Len(txs) =>
          LET new == txs'[Len(txs')]
          IN IF Created # {}
             THEN /\ Created = {new.category_id}
                  /\ new.category_id \notin DOMAIN cats
             ELSE /\ cats' = cats
                  /\ new.category_id \in DOMAIN cats
                  /\ \A k \in DOMAIN hist :
                         hist'[k] # hist[k] =>
                             k = <<new.type, new.category_id>>]_vars

(* one Income was entered for Food, chosen from the list, and one for a
   category created with it, which got id 5 *)
C30_Witness ==
    /\ Len(txs) = 2
    /\ \E i, j \in DOMAIN txs :
           /\ txs[i].category_id = 4 /\ txs[j].category_id = 5
           /\ txs[i].type = "Income" /\ txs[j].type = "Income"
    /\ hist[<<"Income", 4>>] > 0
    /\ hist[<<"Income", 5>>] > 0
    /\ 5 \in DOMAIN cats

====
